---- MODULE Spec2Model ----
(***************************************************************************)
(* Model of src/main.py: a single-shot command line run that loads a       *)
(* configuration file (JSON or YAML), loads a JSON schema file, validates  *)
(* the one against the other and reports the outcome on stdout, on the     *)
(* diagnostic log and through the process exit code.                       *)
(*                                                                         *)
(* The run starts after argparse has accepted the command line (line 157). *)
(* The json, yaml and jsonschema libraries are modelled by their documented*)
(* behaviour on a finite set of file texts and schemas.                    *)
(***************************************************************************)
EXTENDS Integers, Sequences, FiniteSets, TLC

VARIABLES
    config_file,   \* args.config_file: the path, a sequence of characters
    schema_file,   \* args.schema_file
    format,        \* args.format: "json", "yaml" or None
    fs,            \* the file system: path |-> [status, text]
    pc,            \* position of main
    config_data,   \* main's local config_data (Unset until load_config returned)
    schema_data,   \* main's local schema_data
    exc,           \* the exception propagating to main's handlers, or NoExc
    stdout,        \* lines printed
    log,           \* records emitted through logging
    exit_code,     \* process exit status: <<>> until the process ended, then <<code>>
    calls,         \* history: the functions main has invoked, in order
    attempts       \* history: the parsers load_config has run, in order

vars == <<config_file, schema_file, format, fs, pc, config_data, schema_data,
          exc, stdout, log, exit_code, calls, attempts>>

None == "None"
Running == <<>>          \* exit_code while the process has not ended
Exited(code) == <<code>>

-----------------------------------------------------------------------------
(* Python values, as json.load / yaml.safe_load produce them.  One record   *)
(* shape for all of them: t is the type, i the numeric payload (bool, int,  *)
(* float), s the string payload, e the entries of a list or dict, each      *)
(* [k |-> key ("" in a list), v |-> value].                                 *)

PyNone == [t |-> "NoneType", i |-> 0, s |-> "", e |-> <<>>]
PyBool(b) == [t |-> "bool", i |-> IF b THEN 1 ELSE 0, s |-> "", e |-> <<>>]
PyInt(n) == [t |-> "int", i |-> n, s |-> "", e |-> <<>>]
PyFloat(n) == [t |-> "float", i |-> n, s |-> "", e |-> <<>>]
PyStr(x) == [t |-> "str", i |-> 0, s |-> x, e |-> <<>>]
PyList(items) == [t |-> "list", i |-> 0, s |-> "",
                  e |-> [n \in 1..Len(items) |-> [k |-> "", v |-> items[n]]]]
PyDict(entries) == [t |-> "dict", i |-> 0, s |-> "", e |-> entries]
Entry(key, val) == [k |-> key, v |-> val]

PyTrue == PyBool(TRUE)
Unset == [t |-> "unset", i |-> 0, s |-> "", e |-> <<>>]

\* bool(v): what `if not config_data` and `if validate_config(...)` test.
Truthy(v) ==
    CASE v.t = "NoneType" -> FALSE
      [] v.t = "bool" -> v.i = 1
      [] v.t = "int" -> v.i # 0
      [] v.t = "float" -> v.i # 0
      [] v.t = "str" -> v.s # ""
      [] v.t = "list" -> Len(v.e) > 0
      [] v.t = "dict" -> Len(v.e) > 0
      [] OTHER -> FALSE

-----------------------------------------------------------------------------
(* Paths are sequences of one-character strings, so that str.endswith is    *)
(* computed; PathStr gives the text that an f-string interpolates.          *)

RECURSIVE PathStr(_)
PathStr(p) == IF p = <<>> THEN "" ELSE Head(p) \o PathStr(Tail(p))

EndsWith(p, suffix) ==
    /\ Len(suffix) <= Len(p)
    /\ SubSeq(p, Len(p) - Len(suffix) + 1, Len(p)) = suffix

DotJson == <<".", "j", "s", "o", "n">>
DotYaml == <<".", "y", "a", "m", "l">>
DotYml == <<".", "y", "m", "l">>

-----------------------------------------------------------------------------
(* File texts.  Each is a concrete text; the tables below give what        *)
(* json.load(s) and yaml.safe_load return or raise on it.                  *)

TEmpty == ""
TBlank == " \n"
TEmptyDict == "{}"
TEmptyList == "[]"
TNull == "null"
TZero == "0"
TFalse == "false"
TEmptyStr == "\"\""
TObjA1 == "{\"a\": 1}"
TObjAx == "{\"a\": \"x\"}"
TList1 == "[1]"
TExp == "1e2"
TYamlMap == "a: 1"
TYamlBad == "a: [1,2"
TComment == "# only a comment"
TProse == "not json at all"
TSchemaReqA == "{\"type\": \"object\", \"required\": [\"a\"]}"
TSchemaPropA == "{\"type\": \"object\", \"properties\": {\"a\": {\"type\": \"number\"}}}"
TSchemaBadType == "{\"type\": 12}"
TSchemaRef == "{\"$ref\": \"#/missing\"}"

\* Texts that str.strip() reduces to "" (line 72).
StripIsEmpty(text) == text \in {TEmpty, TBlank}

Parsed(val) == [ok |-> TRUE, value |-> val, err |-> ""]
ParseError(msg) == [ok |-> FALSE, value |-> Unset, err |-> msg]

JsonExpectingValue == "Expecting value: line 1 column 1 (char 0)"

\* The values the JSON texts denote (the same under both parsers).
JsonValueOf(text) ==
    CASE text = TEmptyDict -> PyDict(<<>>)
      [] text = TEmptyList -> PyList(<<>>)
      [] text = TNull -> PyNone
      [] text = TZero -> PyInt(0)
      [] text = TFalse -> PyBool(FALSE)
      [] text = TEmptyStr -> PyStr("")
      [] text = TObjA1 -> PyDict(<<Entry("a", PyInt(1))>>)
      [] text = TObjAx -> PyDict(<<Entry("a", PyStr("x"))>>)
      [] text = TList1 -> PyList(<<PyInt(1)>>)
      [] text = TSchemaReqA ->
            PyDict(<<Entry("type", PyStr("object")),
                     Entry("required", PyList(<<PyStr("a")>>))>>)
      [] text = TSchemaPropA ->
            PyDict(<<Entry("type", PyStr("object")),
                     Entry("properties",
                           PyDict(<<Entry("a",
                                    PyDict(<<Entry("type", PyStr("number"))>>))>>))>>)
      [] text = TSchemaBadType -> PyDict(<<Entry("type", PyInt(12))>>)
      [] text = TSchemaRef -> PyDict(<<Entry("$ref", PyStr("#/missing"))>>)

JsonTexts == {TEmptyDict, TEmptyList, TNull, TZero, TFalse, TEmptyStr, TObjA1,
              TObjAx, TList1, TSchemaReqA, TSchemaPropA, TSchemaBadType,
              TSchemaRef}

\* json.load / json.loads: the value, or json.JSONDecodeError with its message.
JsonParse(text) ==
    CASE text \in JsonTexts -> Parsed(JsonValueOf(text))
      [] text = TExp -> Parsed(PyFloat(100))
      [] text = TBlank -> ParseError("Expecting value: line 2 column 1 (char 2)")
      [] OTHER -> ParseError(JsonExpectingValue)

\* yaml.safe_load: the value, or yaml.YAMLError with its message (abridged to
\* its problem line).  An empty stream, a blank one and a comment load as
\* None; a plain scalar that no YAML 1.1 resolver matches is a str.
YamlParse(text) ==
    CASE text \in JsonTexts -> Parsed(JsonValueOf(text))
      [] text \in {TEmpty, TBlank, TComment} -> Parsed(PyNone)
      [] text = TExp -> Parsed(PyStr(TExp))
      [] text = TProse -> Parsed(PyStr(TProse))
      [] text = TYamlMap -> Parsed(PyDict(<<Entry("a", PyInt(1))>>))
      [] text = TYamlBad ->
            ParseError("while parsing a flow sequence: expected ',' or ']', but got '<stream end>'")

Texts == JsonTexts \cup {TEmpty, TBlank, TExp, TYamlMap, TYamlBad, TComment, TProse}

-----------------------------------------------------------------------------
(* Exceptions: the class and str(e).  Bases gives the classes an `except`   *)
(* clause naming them catches.                                              *)

NoExc == [cls |-> "", msg |-> ""]
Exc(c, m) == [cls |-> c, msg |-> m]

Bases(cls) ==
    CASE cls = "FileNotFoundError" -> {"FileNotFoundError", "OSError", "Exception"}
      [] cls = "PermissionError" -> {"PermissionError", "OSError", "Exception"}
      [] cls = "UnicodeDecodeError" -> {"UnicodeDecodeError", "ValueError", "Exception"}
      [] cls = "JSONDecodeError" -> {"JSONDecodeError", "ValueError", "Exception"}
      [] cls = "YAMLError" -> {"YAMLError", "Exception"}
      [] cls = "ValueError" -> {"ValueError", "Exception"}
      [] cls = "ValidationError" -> {"ValidationError", "Exception"}
      [] cls = "SchemaError" -> {"SchemaError", "Exception"}
      [] cls = "RefResolutionError" -> {"RefResolutionError", "Exception"}
      [] cls = "Exception" -> {"Exception"}
      [] OTHER -> {}

IsInstance(e, base) == base \in Bases(e.cls)

\* What a call gives back: a returned value or a raised exception, with the
\* parsers it ran on the way.
Return(val, tried) == [raised |-> FALSE, value |-> val, exc |-> NoExc, attempts |-> tried]
Raise(c, m, tried) == [raised |-> TRUE, value |-> Unset, exc |-> Exc(c, m), attempts |-> tried]

-----------------------------------------------------------------------------
(* jsonschema.validate(instance, schema), for the keywords type, required,  *)
(* properties and $ref and for boolean schemas: check_schema first, then    *)
(* the first error of the evaluation.                                       *)

HasKey(d, key) == \E n \in 1..Len(d.e) : d.e[n].k = key
Get(d, key) == d.e[CHOOSE n \in 1..Len(d.e) : d.e[n].k = key].v

SimpleTypes == {"object", "array", "string", "number", "integer", "boolean", "null"}

TypeMatches(inst, name) ==
    CASE name = "object" -> inst.t = "dict"
      [] name = "array" -> inst.t = "list"
      [] name = "string" -> inst.t = "str"
      [] name = "number" -> inst.t \in {"int", "float"}
      [] name = "integer" -> inst.t = "int"
      [] name = "boolean" -> inst.t = "bool"
      [] name = "null" -> inst.t = "NoneType"
      [] OTHER -> FALSE

\* The metaschema: a schema is a boolean or an object whose keywords have
\* the shapes the draft prescribes.
RECURSIVE SchemaWellFormed(_)
SchemaWellFormed(sch) ==
    CASE sch.t = "bool" -> TRUE
      [] sch.t = "dict" ->
            /\ HasKey(sch, "type") =>
                  /\ Get(sch, "type").t = "str"
                  /\ Get(sch, "type").s \in SimpleTypes
            /\ HasKey(sch, "required") =>
                  /\ Get(sch, "required").t = "list"
                  /\ \A n \in 1..Len(Get(sch, "required").e) :
                        Get(sch, "required").e[n].v.t = "str"
            /\ HasKey(sch, "properties") =>
                  /\ Get(sch, "properties").t = "dict"
                  /\ \A n \in 1..Len(Get(sch, "properties").e) :
                        SchemaWellFormed(Get(sch, "properties").e[n].v)
            /\ HasKey(sch, "$ref") => Get(sch, "$ref").t = "str"
      [] OTHER -> FALSE

Valid == [outcome |-> "valid", msg |-> ""]
Invalid(m) == [outcome |-> "invalid", msg |-> m]
Unresolvable(m) == [outcome |-> "unresolvable", msg |-> m]

\* The member of the root document a "#/<member>" reference points to.
RefTarget(ref) == IF ref = "#/missing" THEN "missing" ELSE ref

RECURSIVE Evaluate(_, _, _, _), EvalKeywords(_, _, _, _, _), EvalProperties(_, _, _, _, _)
Evaluate(inst, sch, root, where) ==
    IF sch.t = "bool"
    THEN IF sch.i = 1 THEN Valid
         ELSE Invalid("False schema does not allow " \o where)
    ELSE EvalKeywords(inst, sch, root, where, 1)

EvalKeywords(inst, sch, root, where, n) ==
    IF n > Len(sch.e) THEN Valid
    ELSE LET kw == sch.e[n].k
             arg == sch.e[n].v
             here ==
                CASE kw = "type" ->
                        IF TypeMatches(inst, arg.s) THEN Valid
                        ELSE Invalid(where \o " is not of type '" \o arg.s \o "'")
                  [] kw = "required" ->
                        IF inst.t = "dict" /\ \E m \in 1..Len(arg.e) : ~HasKey(inst, arg.e[m].v.s)
                        THEN LET m == CHOOSE m \in 1..Len(arg.e) :
                                        /\ ~HasKey(inst, arg.e[m].v.s)
                                        /\ \A l \in 1..(m - 1) : HasKey(inst, arg.e[l].v.s)
                             IN Invalid("'" \o arg.e[m].v.s \o "' is a required property")
                        ELSE Valid
                  [] kw = "properties" ->
                        IF inst.t = "dict" THEN EvalProperties(inst, arg, root, where, 1)
                        ELSE Valid
                  [] kw = "$ref" ->
                        IF root.t = "dict" /\ HasKey(root, RefTarget(arg.s))
                        THEN Evaluate(inst, Get(root, RefTarget(arg.s)), root, where)
                        ELSE Unresolvable("Unresolvable: " \o arg.s)
                  [] OTHER -> Valid
         IN IF here.outcome = "valid"
            THEN EvalKeywords(inst, sch, root, where, n + 1)
            ELSE here

EvalProperties(inst, props, root, where, n) ==
    IF n > Len(props.e) THEN Valid
    ELSE LET key == props.e[n].k
             here == IF HasKey(inst, key)
                     THEN Evaluate(Get(inst, key), props.e[n].v, root,
                                   where \o "['" \o key \o "']")
                     ELSE Valid
         IN IF here.outcome = "valid"
            THEN EvalProperties(inst, props, root, where, n + 1)
            ELSE here

\* validate(instance=..., schema=...) of line 141: returns None or raises.
Validate(inst, sch) ==
    IF ~SchemaWellFormed(sch)
    THEN Raise("SchemaError", "schema is not valid under the metaschema", <<>>)
    ELSE LET r == Evaluate(inst, sch, sch, "instance")
         IN CASE r.outcome = "valid" -> Return(PyNone, <<>>)
              [] r.outcome = "invalid" -> Raise("ValidationError", r.msg, <<>>)
              [] OTHER -> Raise("RefResolutionError", r.msg, <<>>)

-----------------------------------------------------------------------------
(* The file system.  A file is missing, unreadable (open raises another     *)
(* OSError), undecodable (reading raises UnicodeDecodeError) or a text.     *)

MissingFile == [status |-> "missing", text |-> ""]
DeniedFile == [status |-> "denied", text |-> ""]
UndecodableFile == [status |-> "undecodable", text |-> ""]
TextFile(text) == [status |-> "text", text |-> text]

Files == {MissingFile, DeniedFile, UndecodableFile} \cup {TextFile(text) : text \in Texts}

\* open(path, 'r'): the exception it raises, or NoExc.
OpenError(file, path) ==
    CASE file.status = "missing" ->
            Exc("FileNotFoundError",
                "[Errno 2] No such file or directory: '" \o PathStr(path) \o "'")
      [] file.status = "denied" ->
            Exc("PermissionError",
                "[Errno 13] Permission denied: '" \o PathStr(path) \o "'")
      [] OTHER -> NoExc

DecodeErrorMsg == "'utf-8' codec can't decode byte 0xff in position 0: invalid start byte"

-----------------------------------------------------------------------------
(* load_config (lines 41-94).                                               *)

\* Variant: the extension is consulted whatever the hint.
UsesJson_ExtensionFirst(path, hint) == hint = "json" \/ EndsWith(path, DotJson)

\* Variant: the extension is not consulted.
UsesJson_HintOnly(path, hint) == hint = "json"

\* Line 59: the strict JSON branch.
UsesJson(path, hint) == hint = "json" \/ (hint = None /\ EndsWith(path, DotJson))

\* Line 64, reached when line 59 is false: the strict YAML branch.
UsesYaml(path, hint) ==
    hint = "yaml" \/ (hint = None /\ (EndsWith(path, DotYaml) \/ EndsWith(path, DotYml)))

\* Lines 60-63.
LoadStrictJson(file, path) ==
    IF file.status = "undecodable"
    THEN Raise("UnicodeDecodeError", DecodeErrorMsg, <<"json">>)
    ELSE LET r == JsonParse(file.text)
         IN IF r.ok THEN Return(r.value, <<"json">>)
            ELSE Raise("ValueError",
                       "Invalid JSON format in " \o PathStr(path) \o ": " \o r.err,
                       <<"json">>)

\* Lines 65-68.
LoadStrictYaml(file, path) ==
    IF file.status = "undecodable"
    THEN Raise("UnicodeDecodeError", DecodeErrorMsg, <<"yaml">>)
    ELSE LET r == YamlParse(file.text)
         IN IF r.ok THEN Return(r.value, <<"yaml">>)
            ELSE Raise("ValueError",
                       "Invalid YAML format in " \o PathStr(path) \o ": " \o r.err,
                       <<"yaml">>)

\* Variant: YAML is tried before JSON.
Autodetect_YamlFirst(file, path) ==
    IF file.status = "undecodable"
    THEN Raise("UnicodeDecodeError", DecodeErrorMsg, <<>>)
    ELSE IF StripIsEmpty(file.text)
    THEN Raise("ValueError", "Configuration file " \o PathStr(path) \o " is empty.", <<>>)
    ELSE LET j == JsonParse(file.text)
             y == YamlParse(file.text)
         IN IF y.ok THEN Return(y.value, <<"yaml">>)
            ELSE IF j.ok THEN Return(j.value, <<"yaml", "json">>)
            ELSE Raise("ValueError",
                       "Could not determine format of " \o PathStr(path)
                          \o ".  Please specify format using -f/--format.",
                       <<"yaml", "json">>)

\* Variant: the check of line 72 is missing.
Autodetect_NoBlankCheck(file, path) ==
    IF file.status = "undecodable"
    THEN Raise("UnicodeDecodeError", DecodeErrorMsg, <<>>)
    ELSE LET j == JsonParse(file.text)
             y == YamlParse(file.text)
         IN IF j.ok THEN Return(j.value, <<"json">>)
            ELSE IF y.ok THEN Return(y.value, <<"json", "yaml">>)
            ELSE Raise("ValueError",
                       "Could not determine format of " \o PathStr(path)
                          \o ".  Please specify format using -f/--format.",
                       <<"json", "yaml">>)

\* Lines 71-83: detection from the content.
Autodetect(file, path) ==
    IF file.status = "undecodable"
    THEN Raise("UnicodeDecodeError", DecodeErrorMsg, <<>>)
    ELSE IF StripIsEmpty(file.text)
    THEN Raise("ValueError", "Configuration file " \o PathStr(path) \o " is empty.", <<>>)
    ELSE LET j == JsonParse(file.text)
             y == YamlParse(file.text)
         IN IF j.ok THEN Return(j.value, <<"json">>)
            ELSE IF y.ok THEN Return(y.value, <<"json", "yaml">>)
            ELSE Raise("ValueError",
                       "Could not determine format of " \o PathStr(path)
                          \o ".  Please specify format using -f/--format.",
                       <<"json", "yaml">>)

\* Variant: `if config_data is None`.
IsEmptyData_NoneOnly(val) == val.t = "NoneType"

\* Line 85: `if not config_data`.
IsEmptyData(val) == ~Truthy(val)

\* Lines 58-88: the body of the try statement.
LoadConfigBody(files, path, hint) ==
    LET file == files[path]
        opened == OpenError(file, path)
        got == IF UsesJson(path, hint) THEN LoadStrictJson(file, path)
               ELSE IF UsesYaml(path, hint) THEN LoadStrictYaml(file, path)
               ELSE Autodetect(file, path)
    IN IF opened # NoExc THEN Raise(opened.cls, opened.msg, <<>>)
       ELSE IF got.raised THEN got
       ELSE IF IsEmptyData(got.value)
       THEN Raise("ValueError",
                  "Configuration file " \o PathStr(path) \o " is empty or contains no data.",
                  got.attempts)
       ELSE got

\* Lines 57-94: the body under the three except clauses of lines 89-94.
load_config(files, path, hint) ==
    LET b == LoadConfigBody(files, path, hint)
    IN IF ~b.raised THEN b
       ELSE IF IsInstance(b.exc, "FileNotFoundError")
       THEN Raise("FileNotFoundError",
                  "Configuration file not found: " \o PathStr(path), b.attempts)
       ELSE IF IsInstance(b.exc, "ValueError") THEN b
       ELSE Raise("Exception", "Error reading configuration file: " \o b.exc.msg,
                  b.attempts)

-----------------------------------------------------------------------------
(* load_schema (lines 98-122).                                              *)

\* Lines 113-118: the body of the try statement.
LoadSchemaBody(files, path) ==
    LET file == files[path]
        opened == OpenError(file, path)
        r == JsonParse(file.text)
    IN IF opened # NoExc THEN Raise(opened.cls, opened.msg, <<>>)
       ELSE IF file.status = "undecodable"
       THEN Raise("UnicodeDecodeError", DecodeErrorMsg, <<>>)
       ELSE IF r.ok THEN Return(r.value, <<>>)
       ELSE Raise("ValueError",
                  "Invalid JSON format in schema file " \o PathStr(path) \o ": " \o r.err,
                  <<>>)

\* Lines 112-122: the two except clauses of lines 119-122; there is no
\* clause that lets a ValueError through.
load_schema(files, path) ==
    LET b == LoadSchemaBody(files, path)
    IN IF ~b.raised THEN b
       ELSE IF IsInstance(b.exc, "FileNotFoundError")
       THEN Raise("FileNotFoundError", "Schema file not found: " \o PathStr(path), <<>>)
       ELSE Raise("Exception", "Error reading schema file: " \o b.exc.msg, <<>>)

-----------------------------------------------------------------------------
(* validate_config (lines 125-148).                                         *)

\* Variant: an invalid schema is reported as a violation.
validate_config_SchemaAsViolation(config, schema) ==
    LET r == Validate(config, schema)
    IN IF ~r.raised THEN Return(PyTrue, <<>>)
       ELSE IF IsInstance(r.exc, "ValidationError") \/ IsInstance(r.exc, "SchemaError")
       THEN Raise("ValidationError", "Configuration validation error: " \o r.exc.msg, <<>>)
       ELSE Raise("Exception",
                  "An unexpected error occurred during validation: " \o r.exc.msg, <<>>)

\* Variant: a violation is reported by returning False, as the docstring's
\* "False otherwise" suggests, instead of raising.
validate_config_ReturnsFalse(config, schema) ==
    LET r == Validate(config, schema)
    IN IF ~r.raised THEN Return(PyTrue, <<>>)
       ELSE IF IsInstance(r.exc, "ValidationError") THEN Return(PyBool(FALSE), <<>>)
       ELSE IF IsInstance(r.exc, "SchemaError")
       THEN Raise("SchemaError", "Invalid schema: " \o r.exc.msg, <<>>)
       ELSE Raise("Exception",
                  "An unexpected error occurred during validation: " \o r.exc.msg, <<>>)

validate_config(config, schema) ==
    LET r == Validate(config, schema)
    IN IF ~r.raised THEN Return(PyTrue, <<>>)
       ELSE IF IsInstance(r.exc, "ValidationError")
       THEN Raise("ValidationError", "Configuration validation error: " \o r.exc.msg, <<>>)
       ELSE IF IsInstance(r.exc, "SchemaError")
       THEN Raise("SchemaError", "Invalid schema: " \o r.exc.msg, <<>>)
       ELSE Raise("Exception",
                  "An unexpected error occurred during validation: " \o r.exc.msg, <<>>)

-----------------------------------------------------------------------------
(* main (lines 152-197), from line 162 on.                                  *)

ConfigPaths == {<<"c", ".", "j", "s", "o", "n">>,
                <<"c", ".", "y", "a", "m", "l">>,
                <<"c", ".", "y", "m", "l">>,
                <<"c", ".", "t", "x", "t">>,
                <<"c", "j", "s", "o", "n">>}
SchemaPath == <<"s", ".", "j", "s", "o", "n">>
Formats == {None, "json", "yaml"}

ValidMessage == "Configuration is valid."
InvalidNoExceptionMessage ==
    "Configuration is invalid, but no exception was raised. This is unexpected."

LogRecord(level, text) == [level |-> level, msg |-> text]

\* The except clauses of lines 178-194, in order; an exception is handled by
\* the first clause that names one of its classes.
Clauses == <<"FileNotFoundError", "ValueError", "ValidationError", "SchemaError", "Exception">>
\* Variant: the catch-all clause comes first.
HandledBy_CatchAllFirst(e) == "Exception"

HandledBy(e) ==
    Clauses[CHOOSE n \in 1..Len(Clauses) :
                /\ IsInstance(e, Clauses[n])
                /\ \A m \in 1..(n - 1) : ~IsInstance(e, Clauses[m])]

\* Lines 179-180, 183-184, 187-188, 191-192: what the four typed clauses print.
ErrorLine(e) == "Error: " \o e.msg
\* Lines 195-196: what the last clause logs and prints.
UnexpectedLine(e) == "An unexpected error occurred: " \o e.msg

Init ==
    /\ config_file \in ConfigPaths
    /\ schema_file = SchemaPath
    /\ format \in Formats
    /\ \E cf, sf \in Files : fs = (config_file :> cf) @@ (schema_file :> sf)
    /\ pc = "load_config"
    /\ config_data = Unset
    /\ schema_data = Unset
    /\ exc = NoExc
    /\ stdout = <<>>
    /\ log = <<>>
    /\ exit_code = Running
    /\ calls = <<>>
    /\ attempts = <<>>

\* Variant: a failed load is swallowed and main carries on.
CallLoadConfig_NoShortCircuit ==
    /\ pc = "load_config"
    /\ LET r == load_config(fs, config_file, format)
       IN /\ calls' = Append(calls, "load_config")
          /\ attempts' = r.attempts
          /\ pc' = "load_schema"
          /\ config_data' = IF r.raised THEN PyNone ELSE r.value
          /\ UNCHANGED exc
    /\ UNCHANGED <<config_file, schema_file, format, fs, schema_data, stdout, log, exit_code>>

\* Line 164.
CallLoadConfig ==
    /\ pc = "load_config"
    /\ LET r == load_config(fs, config_file, format)
       IN /\ calls' = Append(calls, "load_config")
          /\ attempts' = r.attempts
          /\ IF r.raised
             THEN /\ exc' = r.exc
                  /\ pc' = "except"
                  /\ UNCHANGED config_data
             ELSE /\ config_data' = r.value
                  /\ pc' = "load_schema"
                  /\ UNCHANGED exc
    /\ UNCHANGED <<config_file, schema_file, format, fs, schema_data, stdout, log, exit_code>>

\* Line 167.
CallLoadSchema ==
    /\ pc = "load_schema"
    /\ LET r == load_schema(fs, schema_file)
       IN /\ calls' = Append(calls, "load_schema")
          /\ IF r.raised
             THEN /\ exc' = r.exc
                  /\ pc' = "except"
                  /\ UNCHANGED schema_data
             ELSE /\ schema_data' = r.value
                  /\ pc' = "validate_config"
                  /\ UNCHANGED exc
    /\ UNCHANGED <<config_file, schema_file, format, fs, config_data, stdout, log,
                   exit_code, attempts>>

\* Lines 170-176: the call and the two branches on its result.
CallValidateConfig ==
    /\ pc = "validate_config"
    /\ LET r == validate_config(config_data, schema_data)
       IN /\ calls' = Append(calls, "validate_config")
          /\ IF r.raised
             THEN /\ exc' = r.exc
                  /\ pc' = "except"
                  /\ UNCHANGED <<stdout, log>>
             ELSE /\ pc' = "return"
                  /\ UNCHANGED exc
                  /\ IF Truthy(r.value)
                     THEN /\ log' = Append(log, LogRecord("INFO", ValidMessage))
                          /\ stdout' = Append(stdout, ValidMessage)
                     ELSE /\ log' = Append(log, LogRecord("ERROR", InvalidNoExceptionMessage))
                          /\ stdout' = Append(stdout, InvalidNoExceptionMessage)
    /\ UNCHANGED <<config_file, schema_file, format, fs, config_data, schema_data,
                   exit_code, attempts>>

\* One of the clauses of lines 178-193: log the exception, print it, exit 1.
ExceptTyped(clause) ==
    /\ pc = "except"
    /\ HandledBy(exc) = clause
    /\ log' = Append(log, LogRecord("ERROR", exc.msg))
    /\ stdout' = Append(stdout, ErrorLine(exc))
    /\ exit_code' = Exited(1)
    /\ pc' = "exited"
    /\ UNCHANGED <<config_file, schema_file, format, fs, config_data, schema_data,
                   exc, calls, attempts>>

ExceptFileNotFoundError == ExceptTyped("FileNotFoundError")
ExceptValueError == ExceptTyped("ValueError")
ExceptValidationError == ExceptTyped("ValidationError")
ExceptSchemaError == ExceptTyped("SchemaError")

\* Lines 194-197.
ExceptException ==
    /\ pc = "except"
    /\ HandledBy(exc) = "Exception"
    /\ log' = Append(log, LogRecord("ERROR", UnexpectedLine(exc)))
    /\ stdout' = Append(stdout, UnexpectedLine(exc))
    /\ exit_code' = Exited(1)
    /\ pc' = "exited"
    /\ UNCHANGED <<config_file, schema_file, format, fs, config_data, schema_data,
                   exc, calls, attempts>>

\* Lines 200-201: main returned without sys.exit, the interpreter exits 0.
ReturnFromMain ==
    /\ pc = "return"
    /\ exit_code' = Exited(0)
    /\ pc' = "exited"
    /\ UNCHANGED <<config_file, schema_file, format, fs, config_data, schema_data,
                   exc, stdout, log, calls, attempts>>

Next ==
    \/ CallLoadConfig
    \/ CallLoadSchema
    \/ CallValidateConfig
    \/ ExceptFileNotFoundError
    \/ ExceptValueError
    \/ ExceptValidationError
    \/ ExceptSchemaError
    \/ ExceptException
    \/ ReturnFromMain

Spec == Init /\ [][Next]_vars

\* Lines 162-197 as one function of the command line and the files: what a
\* whole run leaves on stdout and as exit code, and the value it loaded.
RunMain(files, cpath, spath, hint) ==
    LET c == load_config(files, cpath, hint)
        sc == load_schema(files, spath)
        v == validate_config(c.value, sc.value)
        raised == IF c.raised THEN c.exc
                  ELSE IF sc.raised THEN sc.exc
                  ELSE IF v.raised THEN v.exc
                  ELSE NoExc
    IN [config |-> c.value,
        exc |-> raised,
        stdout |-> IF raised = NoExc
                   THEN IF Truthy(v.value) THEN <<ValidMessage>>
                        ELSE <<InvalidNoExceptionMessage>>
                   ELSE IF HandledBy(raised) = "Exception"
                   THEN <<UnexpectedLine(raised)>>
                   ELSE <<ErrorLine(raised)>>,
        exit_code |-> IF raised = NoExc THEN Exited(0) ELSE Exited(1)]

-----------------------------------------------------------------------------
(* Properties.                                                              *)

Done == pc = "exited"
ConfigFile == fs[config_file]
SchemaFile == fs[schema_file]
ConfigLoaded == config_data # Unset
SchemaLoaded == schema_data # Unset
FailedIn(fn) == pc \in {"except", "exited"} /\ exc # NoExc /\ calls[Len(calls)] = fn

\* C1: a run ends with exit code 0 if and only if load_config succeeded,
\* load_schema succeeded and the engine found the document to conform, and
\* exactly then stdout is "Configuration is valid."; every other run ends
\* with exit code 1.
C1_ExitCode ==
    Done =>
        LET conforms == /\ ConfigLoaded
                        /\ SchemaLoaded
                        /\ ~Validate(config_data, schema_data).raised
        IN /\ exit_code \in {Exited(0), Exited(1)}
           /\ (exit_code = Exited(0)) <=> conforms
           /\ (stdout = <<ValidMessage>>) <=> conforms
           /\ ~conforms => (exit_code = Exited(1) /\ exc # NoExc)

C1_Witness ==
    /\ Done
    /\ exit_code = Exited(0)
    /\ stdout = <<ValidMessage>>
    /\ calls = <<"load_config", "load_schema", "validate_config">>

\* C2: the steps run in the order load_config, load_schema, validate_config,
\* each at most once; load_schema is not invoked after a failed load_config,
\* validate_config not unless both loads succeeded.
C2_Sequencing ==
    /\ calls \in {<<>>, <<"load_config">>, <<"load_config", "load_schema">>,
                  <<"load_config", "load_schema", "validate_config">>}
    /\ Len(calls) >= 2 =>
          /\ ~load_config(fs, config_file, format).raised
          /\ config_data = load_config(fs, config_file, format).value
    /\ Len(calls) >= 3 =>
          /\ ~load_schema(fs, schema_file).raised
          /\ schema_data = load_schema(fs, schema_file).value
    /\ FailedIn("load_config") => calls = <<"load_config">>
    /\ FailedIn("load_schema") => calls = <<"load_config", "load_schema">>

C2_Witness ==
    /\ Done
    /\ calls = <<"load_config", "load_schema">>
    /\ exc.cls = "FileNotFoundError"

TypedClasses == {"FileNotFoundError", "ValueError", "ValidationError", "SchemaError"}

C4_SchemaSyntaxError ==
    (/\ Done
     /\ ConfigLoaded
     /\ SchemaFile.status = "text"
     /\ ~JsonParse(SchemaFile.text).ok) =>
        LET msg == "Invalid JSON format in schema file " \o PathStr(schema_file)
                      \o ": " \o JsonParse(SchemaFile.text).err
        IN /\ exc = Exc("ValueError", msg)
           /\ stdout = <<"Error: " \o msg>>
           /\ exit_code = Exited(1)

EmptyMessage == "Configuration file " \o PathStr(config_file) \o " is empty."

\* C5 as stated: an empty (0 bytes) config file ends the run with exit code 1
\* and stdout "Error: Configuration file <path> is empty.", whatever the
\* extension and the format hint.
C5_EmptyFileMessage ==
    (Done /\ ConfigFile = TextFile(TEmpty)) =>
        /\ exit_code = Exited(1)
        /\ stdout = <<"Error: " \o EmptyMessage>>

InJsonBranch ==
    format = "json" \/ (format = None /\ EndsWith(config_file, DotJson))
InYamlBranch ==
    /\ ~InJsonBranch
    /\ \/ format = "yaml"
       \/ format = None /\ (EndsWith(config_file, DotYaml) \/ EndsWith(config_file, DotYml))
InAutodetectBranch == ~InJsonBranch /\ ~InYamlBranch

\* C5 amended: an empty (0 bytes) config file ends the run with exit code 1
\* for every extension and hint; stdout is "Error: Configuration file <path>
\* is empty." when the format is autodetected, "Error: Invalid JSON format in
\* <path>: Expecting value: line 1 column 1 (char 0)" on the JSON branch and
\* "Error: Configuration file <path> is empty or contains no data." on the
\* YAML branch.
C5_EmptyFileByBranch ==
    (Done /\ ConfigFile = TextFile(TEmpty)) =>
        /\ exit_code = Exited(1)
        /\ calls = <<"load_config">>
        /\ InAutodetectBranch => stdout = <<"Error: " \o EmptyMessage>>
        /\ InJsonBranch =>
              stdout = <<"Error: Invalid JSON format in " \o PathStr(config_file)
                            \o ": Expecting value: line 1 column 1 (char 0)">>
        /\ InYamlBranch =>
              stdout = <<"Error: Configuration file " \o PathStr(config_file)
                            \o " is empty or contains no data.">>

C5_Witness ==
    /\ Done
    /\ ConfigFile = TextFile(TEmpty)
    /\ InAutodetectBranch
    /\ stdout = <<"Error: " \o EmptyMessage>>

EmptyDataMessage ==
    "Configuration file " \o PathStr(config_file) \o " is empty or contains no data."
UndeterminedMessage ==
    "Could not determine format of " \o PathStr(config_file)
        \o ".  Please specify format using -f/--format."

\* The parse the claimed selection rule prescribes for the config text.
PrescribedParse ==
    IF InJsonBranch THEN JsonParse(ConfigFile.text)
    ELSE IF InYamlBranch THEN YamlParse(ConfigFile.text)
    ELSE IF JsonParse(ConfigFile.text).ok THEN JsonParse(ConfigFile.text)
    ELSE YamlParse(ConfigFile.text)

\* C6: load_config either raises or returns a value that bool() takes as
\* present; a parsed value that is {}, [], None, "", 0 or False is rejected
\* with the "is empty or contains no data" ValueError on the JSON, the YAML
\* and the autodetect branch, and a zero-byte or whitespace-only file never
\* reaches validate_config.
C6_NoEmptyDocument ==
    Len(calls) >= 1 =>
        /\ ConfigLoaded <=> ~FailedIn("load_config")
        /\ ConfigLoaded => Truthy(config_data)
        /\ FailedIn("load_config") => ~ConfigLoaded /\ calls = <<"load_config">>
        /\ (/\ ConfigFile.status = "text"
            /\ ~(InAutodetectBranch /\ StripIsEmpty(ConfigFile.text))
            /\ PrescribedParse.ok
            /\ ~Truthy(PrescribedParse.value)) =>
              /\ FailedIn("load_config")
              /\ exc = Exc("ValueError", EmptyDataMessage)
        /\ (ConfigFile.status = "text" /\ ConfigFile.text \in {TEmpty, TBlank}) =>
              /\ FailedIn("load_config")
              /\ "validate_config" \notin {calls[n] : n \in 1..Len(calls)}

C6_Witness ==
    /\ Done
    /\ ConfigFile = TextFile(TEmptyDict)
    /\ InAutodetectBranch
    /\ exc = Exc("ValueError", EmptyDataMessage)
    /\ stdout = <<"Error: " \o EmptyDataMessage>>

\* C7: load_config parses strictly as JSON when the hint is json, or absent
\* with a .json path; else strictly as YAML when the hint is yaml, or absent
\* with a .yaml/.yml path; it autodetects only when the hint is absent and
\* the extension is none of these.  A hint overrides the extension, and a
\* .json file without hint whose content is YAML but not JSON fails with the
\* "Invalid JSON format" ValueError and is not retried as YAML.
C7_ParserSelection ==
    (Len(calls) >= 1 /\ ConfigFile.status = "text") =>
        LET j == JsonParse(ConfigFile.text)
            y == YamlParse(ConfigFile.text)
        IN /\ InJsonBranch =>
                 /\ attempts = <<"json">>
                 /\ ~j.ok =>
                       /\ FailedIn("load_config")
                       /\ exc = Exc("ValueError",
                                    "Invalid JSON format in " \o PathStr(config_file)
                                        \o ": " \o j.err)
                 /\ ConfigLoaded => config_data = j.value
           /\ InYamlBranch =>
                 /\ attempts = <<"yaml">>
                 /\ ~y.ok =>
                       /\ FailedIn("load_config")
                       /\ exc = Exc("ValueError",
                                    "Invalid YAML format in " \o PathStr(config_file)
                                        \o ": " \o y.err)
                 /\ ConfigLoaded => config_data = y.value
           /\ InAutodetectBranch =>
                 /\ attempts \in {<<>>, <<"json">>, <<"json", "yaml">>}
                 /\ ~j.ok /\ ~StripIsEmpty(ConfigFile.text) => attempts = <<"json", "yaml">>
           /\ (format = "json" /\ ~EndsWith(config_file, DotJson)) => attempts = <<"json">>
           /\ (format = "yaml" /\ EndsWith(config_file, DotJson)) => attempts = <<"yaml">>

C7_Witness ==
    /\ Done
    /\ format = None
    /\ EndsWith(config_file, DotJson)
    /\ ConfigFile = TextFile(TYamlMap)
    /\ attempts = <<"json">>
    /\ stdout = <<"Error: Invalid JSON format in c.json: Expecting value: line 1 column 1 (char 0)">>

\* C8: for a config path ending in .json, a run with -f json and a run
\* without the format flag end alike, for every file content and schema:
\* same loaded value or same error, same line on stdout, same exit code.
C8_HintJsonIdempotent ==
    (Done /\ EndsWith(config_file, DotJson) /\ format \in {None, "json"}) =>
        LET other == IF format = None THEN "json" ELSE None
            twin == RunMain(fs, config_file, schema_file, other)
        IN /\ twin.config = config_data
           /\ twin.exc = exc
           /\ twin.stdout = stdout
           /\ twin.exit_code = exit_code

C8_Witness ==
    /\ Done
    /\ EndsWith(config_file, DotJson)
    /\ format = None
    /\ ConfigFile = TextFile(TEmpty)
    /\ RunMain(fs, config_file, schema_file, "json").stdout = stdout
    /\ exit_code = Exited(1)

C10_AutodetectOrder ==
    (Len(calls) >= 1 /\ InAutodetectBranch /\ ConfigFile.status = "text") =>
        LET j == JsonParse(ConfigFile.text)
            y == YamlParse(ConfigFile.text)
            blank == ConfigFile.text \in {TEmpty, TBlank}
        IN /\ blank =>
                 /\ attempts = <<>>
                 /\ exc = Exc("ValueError", EmptyMessage)
           /\ ~blank =>
                 /\ attempts # <<>>
                 /\ attempts[1] = "json"
                 /\ j.ok =>
                       /\ attempts = <<"json">>
                       /\ ConfigLoaded => config_data = j.value
                       /\ ~ConfigLoaded => exc = Exc("ValueError", EmptyDataMessage)
                 /\ (attempts = <<"json", "yaml">>) <=> ~j.ok
                 /\ (~j.ok /\ y.ok /\ ConfigLoaded) => config_data = y.value
           /\ (exc = Exc("ValueError", UndeterminedMessage)) <=> (~blank /\ ~j.ok /\ ~y.ok)

C10_Witness ==
    /\ Done
    /\ InAutodetectBranch
    /\ ConfigFile = TextFile(TExp)
    /\ attempts = <<"json">>
    /\ config_data = PyFloat(100)
    /\ YamlParse(TExp).ok
    /\ YamlParse(TExp).value # config_data

====
